---- MODULE Spec2Model ----
(***************************************************************************)
(* CHAT transcript processing of ChildSpeechProcessing: the Role Resolver  *)
(* (children_voice_filter.py), the Segment Builder with its inline Tier    *)
(* Tokenizer (extract_wor.py), the older Segment Builder variant           *)
(* (extract_wor_segments.py) and the Transcript Classifier                 *)
(* (classify_cha.py).                                                      *)
(*                                                                         *)
(* A transcript is a sequence of lines, each a string that ends with its   *)
(* line terminator, as Python's `for line in f` yields them.  The parsing  *)
(* functions work on sequences of one-character strings (Chars), so that   *)
(* split, strip, startswith and the regular expressions are computed       *)
(* character by character, as the code computes them.                      *)
(***************************************************************************)
EXTENDS Integers, Sequences, FiniteSets, TLC

(***************************************************************************)
(* Bounds of the model.                                                    *)
(***************************************************************************)
MaxLines == 3
MaxTokens == 3

(***************************************************************************)
(* Characters and strings.                                                 *)
(***************************************************************************)
\* The one-character string that stands for the control byte 0x15 (NAK),
\* which TLA+ string literals cannot hold.  It is no whitespace and no digit.
NAK == "~"

\* Python's None for a word bound (int or None): bounds parsed by \d+ are >= 0.
None == -1

\* Python's None for current_speaker (str or None).
NoSpeaker == "<None>"

WS == {" ", "\t", "\n", "\r", "\f"}

Digits == {"0", "1", "2", "3", "4", "5", "6", "7", "8", "9"}

Chars(s) == [i \in 1..Len(s) |-> SubSeq(s, i, i)]

RECURSIVE Str(_)
Str(cs) == IF cs = <<>> THEN "" ELSE Head(cs) \o Str(Tail(cs))

Drop(cs, n) == SubSeq(cs, n + 1, Len(cs))

Take(cs, n) == SubSeq(cs, 1, n)

\* The items of a list.
Elements(parts) == {parts[k] : k \in 1..Len(parts)}

\* str.startswith(p)
StartsWith(cs, p) == Len(cs) >= Len(p) /\ Take(cs, Len(p)) = p

\* The least index >= from at which P holds of the character there, else 0.
FirstFrom(cs, from, P(_)) ==
    IF \E i \in from..Len(cs) : P(cs[i])
    THEN CHOOSE i \in from..Len(cs) : P(cs[i]) /\ \A j \in from..(i - 1) : ~P(cs[j])
    ELSE 0

\* The greatest index at which P holds of the character there, else 0.
LastIndex(cs, P(_)) ==
    IF \E i \in 1..Len(cs) : P(cs[i])
    THEN CHOOSE i \in 1..Len(cs) : P(cs[i]) /\ \A j \in (i + 1)..Len(cs) : ~P(cs[j])
    ELSE 0

IsWS(c) == c \in WS
NotWS(c) == c \notin WS
NotDigit(c) == c \notin Digits

\* str.rstrip(), str.lstrip(), str.strip()
RStrip(cs) == Take(cs, LastIndex(cs, NotWS))

LStrip(cs) ==
    LET i == FirstFrom(cs, 1, NotWS) IN IF i = 0 THEN <<>> ELSE Drop(cs, i - 1)

Strip(cs) == LStrip(RStrip(cs))

\* str.split(sep, 1) for a one-character sep: one part when sep is absent.
SplitFirst(cs, sep) ==
    LET IsSep(c) == c = sep
        i == FirstFrom(cs, 1, IsSep)
    IN  IF i = 0 THEN <<cs>> ELSE <<Take(cs, i - 1), Drop(cs, i)>>

\* str.rsplit(sep, 1) for a one-character sep.
RSplitLast(cs, sep) ==
    LET IsSep(c) == c = sep
        i == LastIndex(cs, IsSep)
    IN  IF i = 0 THEN <<cs>> ELSE <<Take(cs, i - 1), Drop(cs, i)>>

\* str.split(sep) for a one-character sep: every part, empty ones included.
RECURSIVE SplitAll(_, _)
SplitAll(cs, sep) ==
    LET parts == SplitFirst(cs, sep)
    IN  IF Len(parts) = 1 THEN parts
        ELSE <<parts[1]>> \o SplitAll(parts[2], sep)

\* str.split(): the maximal runs of non-whitespace characters.
RECURSIVE SplitWS(_)
SplitWS(cs) ==
    LET s == LStrip(cs)
        e == FirstFrom(s, 1, IsWS)
    IN  IF s = <<>> THEN <<>>
        ELSE IF e = 0 THEN <<s>>
        ELSE <<Take(s, e - 1)>> \o SplitWS(Drop(s, e))

\* str.replace(c, "") for a one-character c.
RemoveAll(cs, c) == LET Keep(x) == x # c IN SelectSeq(cs, Keep)

\* sub in s
Contains(cs, sub) ==
    \E i \in 0..(Len(cs) - Len(sub)) : SubSeq(cs, i + 1, i + Len(sub)) = sub

\* The length of the run of digits of cs that starts at index from.
DigitRun(cs, from) ==
    LET e == FirstFrom(cs, from, NotDigit)
    IN  IF from > Len(cs) THEN 0 ELSE IF e = 0 THEN Len(cs) - from + 1 ELSE e - from

DigitValue(c) == CHOOSE d \in 0..9 : Chars("0123456789")[d + 1] = c

\* int(s) for a non-empty string of digits
RECURSIVE ToInt(_)
ToInt(cs) ==
    IF cs = <<>> THEN 0
    ELSE 10 * ToInt(Take(cs, Len(cs) - 1)) + DigitValue(cs[Len(cs)])

\* " ".join(strs)
RECURSIVE JoinSpace(_)
JoinSpace(strs) ==
    IF strs = <<>> THEN ""
    ELSE IF Len(strs) = 1 THEN strs[1]
    ELSE strs[1] \o " " \o JoinSpace(Tail(strs))

(***************************************************************************)
(* Role Resolver: ChildrenVoiceFilter.extract_speakers_from_cha.           *)
(***************************************************************************)
EmptyMap == [c \in {} |-> ""]

\* speakers[name] = role
SetRole(m, name, role) ==
    [c \in DOMAIN m \cup {name} |-> IF c = name THEN role ELSE m[c]]

\* One entry of the comma-separated @Participants list.
AddParticipant(m, entry) ==
    LET participant == Strip(entry)
        parts == RSplitLast(participant, " ")
    IN  IF Len(parts) = 2 THEN SetRole(m, Str(parts[1]), Str(parts[2])) ELSE m

RECURSIVE AddParticipants(_, _)
AddParticipants(m, entries) ==
    IF entries = <<>> THEN m
    ELSE AddParticipants(AddParticipant(m, Head(entries)), Tail(entries))

\* An @ID line: the code is parts[2], the role parts[6] (0-based).
AddId(m, line) ==
    LET parts == SplitAll(line, "|")
    IN  IF Len(parts) >= 7
        THEN LET speaker_name == parts[3]
                 role == parts[7]
             IN  IF speaker_name # <<>> /\ role # <<>>
                 THEN SetRole(m, Str(speaker_name), Str(role))
                 ELSE m
        ELSE m

\* The body of the loop over the lines of the file; the line is not stripped.
ResolveStep(m, rawline) ==
    LET line == Chars(rawline)
    IN  IF StartsWith(line, Chars("@Participants:"))
        THEN AddParticipants(m, SplitAll(Strip(SplitFirst(line, ":")[2]), ","))
        ELSE IF StartsWith(line, Chars("@ID:"))
        THEN AddId(m, line)
        ELSE m

(***************************************************************************)
(* Tier Tokenizer: the token scan inside extract_wor._extract_from_file.   *)
(***************************************************************************)
\* re.match(r"^\d{5,}_\d{5,}$", token)
IsTimestamp(token) ==
    LET d1 == DigitRun(token, 1)
        d2 == DigitRun(token, d1 + 2)
    IN  /\ d1 >= 5
        /\ Len(token) >= d1 + 1
        /\ token[d1 + 1] = "_"
        /\ d2 >= 5
        /\ Len(token) = d1 + 1 + d2

\* re.match(r"(\d+)_(\d+)", token) on a token IsTimestamp accepts: the groups.
TimestampStart(token) == ToInt(Take(token, DigitRun(token, 1)))

TimestampEnd(token) ==
    LET d1 == DigitRun(token, 1)
    IN  ToInt(SubSeq(token, d1 + 2, d1 + 1 + DigitRun(token, d1 + 2)))

\* Mutant: a timestamp is attached only to a word that has no bounds yet.
RECURSIVE ScanTokensKeepFirst(_, _, _)
ScanTokensKeepFirst(tokens, i, words) ==
    IF i > Len(tokens) THEN words
    ELSE LET token == tokens[i]
         IN  IF IsTimestamp(token)
             THEN IF words # <<>> /\ words[Len(words)][2] = None
                  THEN ScanTokensKeepFirst(tokens, i + 1,
                         [words EXCEPT ![Len(words)] =
                            <<words[Len(words)][1], TimestampStart(token), TimestampEnd(token)>>])
                  ELSE ScanTokensKeepFirst(tokens, i + 1, words)
             ELSE ScanTokensKeepFirst(tokens, i + 1, Append(words, <<Str(token), None, None>>))

\* The while loop over the tokens, from index i with the words emitted so far.
RECURSIVE ScanTokens(_, _, _)
ScanTokens(tokens, i, words) ==
    IF i > Len(tokens) THEN words
    ELSE LET token == tokens[i]
         IN  IF IsTimestamp(token)
             THEN IF words # <<>>
                  THEN ScanTokens(tokens, i + 1,
                         [words EXCEPT ![Len(words)] =
                            <<words[Len(words)][1], TimestampStart(token), TimestampEnd(token)>>])
                  ELSE ScanTokens(tokens, i + 1, words)
             ELSE ScanTokens(tokens, i + 1, Append(words, <<Str(token), None, None>>))

\* The tokens of a %wor line (rstripped): content after the first ":",
\* stripped, with the 0x15 bytes removed, split on whitespace.
WorTokens(line) == SplitWS(RemoveAll(Strip(SplitFirst(line, ":")[2]), NAK))

Tokenize(line) == ScanTokens(WorTokens(line), 1, <<>>)

(***************************************************************************)
(* Paths: pathlib.Path as the sequence of its parts below the directory    *)
(* that is walked, <<"a", "c.cha">> for a/c.cha.                           *)
(***************************************************************************)
\* path.name
PathName(path) == path[Len(path)]

\* path.stem: the name up to its last ".", unless that "." is the first or
\* the last character of the name.
PathStem(path) ==
    LET name == Chars(PathName(path))
        IsDot(c) == c = "."
        i == LastIndex(name, IsDot)
    IN  IF 1 < i /\ i < Len(name) THEN Str(Take(name, i - 1)) ELSE PathName(path)

\* The characters of the file names, in the order of their code points.
CodePoints == Chars("-.0123456789abcdefghijklmnopqrstuvwxyz")

Ord(c) == CHOOSE k \in 1..Len(CodePoints) : CodePoints[k] = c

\* a < b for two sequences compared item by item, as Python compares
\* strings, lists and tuples: at the first index where they differ, or by
\* length when one is a prefix of the other.
LexLess(a, b, Less(_, _)) ==
    \E k \in 1..(Len(a) + 1) :
        /\ \A j \in 1..(k - 1) : j <= Len(b) /\ a[j] = b[j]
        /\ k <= Len(b)
        /\ k <= Len(a) => Less(a[k], b[k])

CharLess(c, d) == Ord(c) < Ord(d)

StrLess(x, y) == LexLess(Chars(x), Chars(y), CharLess)

\* PurePath.__lt__: the parts compared as lists of strings.
PathLess(p, q) == LexLess(p, q, StrLess)

\* sorted(paths) for a set of paths
RECURSIVE SortedPaths(_)
SortedPaths(S) ==
    IF S = {} THEN <<>>
    ELSE LET least == CHOOSE p \in S : \A q \in S \ {p} : PathLess(p, q)
         IN  <<least>> \o SortedPaths(S \ {least})

\* fnmatch of a name against "*.cha"
MatchesCha(name) ==
    LET cs == Chars(name)
    IN  Len(cs) >= 4 /\ Drop(cs, Len(cs) - 4) = Chars(".cha")

\* cha_dir.glob("*.cha"): the matching entries of the directory itself.
GlobTop(dir) == {p \in DOMAIN dir : Len(p) = 1 /\ MatchesCha(PathName(p))}

\* cha_dir.glob("**/*.cha") and directory.rglob("*.cha"): the matching
\* entries of the directory and of every directory below it.
GlobDeep(dir) == {p \in DOMAIN dir : MatchesCha(PathName(p))}

\* Mutant: the list of both globs is taken as it is.
WithDuplicates(paths) == paths

\* sorted(set(cha_files))
SortedSet(paths) == SortedPaths(Elements(paths))

\* The .cha files _extract_from_directory goes through.
ChaFiles(dir) == SortedSet(SortedPaths(GlobTop(dir)) \o SortedPaths(GlobDeep(dir)))

\* A byte that is no valid UTF-8 where it stands (0xE9 before a space).
InvalidByte == "#"

\* Reading the lines of a file opened with encoding="utf-8": the first read
\* decodes the whole of a file shorter than the reader's chunk, and raises
\* UnicodeDecodeError if a byte of it is invalid.
Decodes(lines) == \A k \in 1..Len(lines) : InvalidByte \notin Elements(Chars(lines[k]))

(***************************************************************************)
(* Segment Builder: extract_wor._extract_from_file.                        *)
(***************************************************************************)
\* The path of the file at work, as parts below the directory that is walked.
VARIABLE cha_file

\* cha_file.stem
Stem == PathStem(cha_file)

Punctuation == {"?", ".", ",", "!", "+..."}

HasTs(w) == w[2] # None /\ w[3] # None

\* Mutant: the filter on the bounds is left out.
WordsWithTsUnfiltered(words) == words

WordsWithTs(words) == SelectSeq(words, HasTs)

IsClean(w) == w[1] \notin Punctuation

WordStrings(words) == [k \in 1..Len(words) |-> words[k][1]]

\* Mutant: the punctuation tokens are kept in the text.
CleanWordsKeepAll(words_with_ts) == WordStrings(words_with_ts)

CleanWords(words_with_ts) == WordStrings(SelectSeq(words_with_ts, IsClean))

\* Mutant: the guard tests `is None` only, so an empty code passes.
FalsyNoneOnly(speaker) == speaker = NoSpeaker

\* `not current_speaker`
Falsy(speaker) == speaker = NoSpeaker \/ speaker = ""

\* Mutant: the "*" of the main tier is left in the code.
ParseSpeakerKeepStar(line) == Str(Strip(SplitFirst(line, ":")[1]))

\* line.split(":", 1)[0].replace("*", "").strip()
ParseSpeaker(line) == Str(Strip(RemoveAll(SplitFirst(line, ":")[1], "*")))

MakeSegment(speaker, words_with_ts) ==
    [speaker |-> speaker,
     text |-> JoinSpace(CleanWords(words_with_ts)),
     words |-> words_with_ts,
     file_name |-> Stem]

(***************************************************************************)
(* Segment Builder, older variant: extract_wor_segments.py.                *)
(***************************************************************************)
\* One match of WORD_TS_RE = (\S+)\s+\^U(\d+)_(\d+)\^U that starts at index s:
\* the run of non-whitespace from s, the run of whitespace after it, then the
\* literal characters ^ and U, digits, _, digits, ^ and U.  Every quantifier
\* is followed by a character it cannot match, so each takes its whole run.
WordEnd(cs, s) == FirstFrom(cs, s, IsWS) - 1

TsOpen(cs, s) == FirstFrom(cs, WordEnd(cs, s) + 1, NotWS)

TsUnderscore(cs, s) == TsOpen(cs, s) + 2 + DigitRun(cs, TsOpen(cs, s) + 2)

TsClose(cs, s) == TsUnderscore(cs, s) + 1 + DigitRun(cs, TsUnderscore(cs, s) + 1)

\* The index of the last character of the match that starts at s, or 0.
MatchEnd(cs, s) ==
    LET open == TsOpen(cs, s)
        underscore == TsUnderscore(cs, s)
        close == TsClose(cs, s)
    IN  IF /\ s <= Len(cs)
           /\ cs[s] \notin WS
           /\ WordEnd(cs, s) >= s
           /\ open # 0
           /\ open + 1 <= Len(cs)
           /\ cs[open] = "^"
           /\ cs[open + 1] = "U"
           /\ underscore >= open + 3
           /\ underscore <= Len(cs)
           /\ cs[underscore] = "_"
           /\ close >= underscore + 2
           /\ close + 1 <= Len(cs)
           /\ cs[close] = "^"
           /\ cs[close + 1] = "U"
        THEN close + 1
        ELSE 0

\* WORD_TS_RE.findall(line) from index `from`, each match as (w, int, int):
\* the leftmost match, then the matches after its end.
RECURSIVE FindAll(_, _)
FindAll(cs, from) ==
    LET starts == {s \in from..Len(cs) : MatchEnd(cs, s) # 0}
    IN  IF starts = {} THEN <<>>
        ELSE LET s == CHOOSE x \in starts : \A y \in starts : x <= y
             IN  <<<<Str(SubSeq(cs, s, WordEnd(cs, s))),
                     ToInt(SubSeq(cs, TsOpen(cs, s) + 2, TsUnderscore(cs, s) - 1)),
                     ToInt(SubSeq(cs, TsUnderscore(cs, s) + 1, TsClose(cs, s) - 1))>>>>
                 \o FindAll(cs, MatchEnd(cs, s) + 1)

MakeVariantSegment(speaker, ws) ==
    [speaker |-> speaker, text |-> JoinSpace(WordStrings(ws)), words |-> ws]

(***************************************************************************)
(* Transcript Classifier: classify_cha.classify_cha_file.                  *)
(***************************************************************************)
TargetChild == Chars("Target_Child")

\* TIMESTAMP_RE.search(content), TIMESTAMP_RE = \^U\d+_\d+\^U
TsAt(cs, i) ==
    LET d1 == DigitRun(cs, i + 2)
        u == i + 2 + d1
        d2 == DigitRun(cs, u + 1)
        c == u + 1 + d2
    IN  /\ cs[i] = "^"
        /\ i + 1 <= Len(cs)
        /\ cs[i + 1] = "U"
        /\ d1 >= 1
        /\ u <= Len(cs)
        /\ cs[u] = "_"
        /\ d2 >= 1
        /\ c + 1 <= Len(cs)
        /\ cs[c] = "^"
        /\ cs[c + 1] = "U"

HasTimestamp(cs) == \E i \in 1..Len(cs) : TsAt(cs, i)

\* str.lower() on the letters of the transcripts
LowerChar(c) ==
    LET up == Chars("ABCDEFGHIJKLMNOPQRSTUVWXYZ")
        lo == Chars("abcdefghijklmnopqrstuvwxyz")
        hits == {k \in 1..26 : up[k] = c}
    IN  IF hits = {} THEN c ELSE lo[CHOOSE k \in hits : TRUE]

Lower(cs) == [k \in 1..Len(cs) |-> LowerChar(cs[k])]

\* Pass 1, one line: has_target_child after the line.
MetaHasChild(has, rawline) ==
    LET line == Chars(rawline)
        parts == SplitAll(Strip(line), "|")
    IN  \/ has
        \/ StartsWith(line, Chars("@Participants:")) /\ Contains(line, TargetChild)
        \/ StartsWith(line, Chars("@ID:")) /\ Len(parts) >= 3 /\ TargetChild \in Elements(parts)

\* Pass 1, one line: child_speaker_ids after the line.
MetaChildIds(ids, rawline) ==
    LET line == Chars(rawline)
        parts == SplitAll(Strip(line), "|")
    IN  IF StartsWith(line, Chars("@ID:")) /\ Len(parts) >= 3 /\ TargetChild \in Elements(parts)
        THEN ids \cup {Str(parts[3])}
        ELSE ids

\* Pass 2, one line: the utterances after the line.
AddUtterance(utts, ids, rawline) ==
    LET line == Chars(rawline)
        parts == SplitFirst(line, ":")
        speaker == Str(Strip(Drop(parts[1], 1)))
    IN  IF ~StartsWith(line, Chars("*")) THEN utts
        ELSE IF Len(parts) = 1 THEN utts
        ELSE IF ~(speaker = "CHI" \/ speaker \in ids) THEN utts
        ELSE Append(utts, [speaker |-> speaker,
                           has_timestamp |-> HasTimestamp(parts[2]),
                           has_xxx |-> Contains(Lower(parts[2]), Chars("xxx"))])

WithTs(utts) == Len(SelectSeq(utts, LAMBDA u : u.has_timestamp))

FileType(has, utts) ==
    IF ~has THEN "EMPTY"
    ELSE IF Len(utts) = 0 THEN "EMPTY"
    ELSE IF WithTs(utts) = Len(utts) THEN "A"
    ELSE IF WithTs(utts) > 0 THEN "B"
    ELSE "B"

Summary(has, ids, utts) ==
    [file |-> PathName(cha_file),
     type |-> FileType(has, utts),
     child_utterances |-> Len(utts),
     with_timestamps |-> WithTs(utts),
     without_timestamps |-> Len(utts) - WithTs(utts),
     has_xxx |-> \E k \in 1..Len(utts) : utts[k].has_xxx,
     child_speakers |-> ids]

NoResult == [type |-> "none"]

(***************************************************************************)
(* Filter / Aggregator: ChildrenVoiceFilter and SegmentFilter of           *)
(* children_voice_filter.py.                                               *)
(***************************************************************************)
CHILD_ROLES == {"Target_Child", "Child", "Sibling", "Peer", "Playmate"}

ADULT_ROLES ==
    {"Investigator", "Teacher", "Mother", "Father", "Adult", "Caregiver", "Parent"}

\* dict.get(key, default)
Get(m, key, default) == IF key \in DOMAIN m THEN m[key] ELSE default

is_child(speaker, speakers_info) == Get(speakers_info, speaker, "Unknown") \in CHILD_ROLES

is_adult(speaker, speakers_info) == Get(speakers_info, speaker, "Unknown") \in ADULT_ROLES

\* "Target_Child" in s.speaker or "Child" in s.speaker
NamedChild(s) ==
    \/ Contains(Chars(s.speaker), Chars("Target_Child"))
    \/ Contains(Chars(s.speaker), Chars("Child"))

filter_children_only(segs) == SelectSeq(segs, NamedChild)

\* speakers_info.get(s.speaker) == role; the default of get is None.
by_speaker_role(segs, speakers_info, r) ==
    LET Keep(s) == Get(speakers_info, s.speaker, NoSpeaker) = r
    IN  SelectSeq(segs, Keep)

by_min_words(segs, n) ==
    LET Keep(s) == Len(s.words) >= n
    IN  SelectSeq(segs, Keep)

combine_filtersMinOnly(segs, speakers_info, n, r) == by_min_words(segs, n)

\* `if role:` holds of a string that is neither None nor empty.
combine_filters(segs, speakers_info, n, r) ==
    IF Falsy(r) THEN by_min_words(segs, n)
    ELSE by_speaker_role(by_min_words(segs, n), speakers_info, r)

\* by_role.setdefault(role, {...}) of get_speaker_statistics
NewStats == [speakers |-> {}, segment_count |-> 0, total_duration_ms |-> 0]

StatsStepFirstWord(by, seg, speakers_info) ==
    LET r == Get(speakers_info, seg.speaker, "Unknown")
        old == Get(by, r, NewStats)
        entry == [speakers |-> old.speakers \cup {seg.speaker},
                  segment_count |-> old.segment_count + 1,
                  total_duration_ms |-> old.total_duration_ms
                                        + seg.words[1][3] - seg.words[1][2]]
    IN  [k \in DOMAIN by \cup {r} |-> IF k = r THEN entry ELSE by[k]]

\* get_speaker_statistics: one iteration of the loop over the segments.
StatsStep(by, seg, speakers_info) ==
    LET r == Get(speakers_info, seg.speaker, "Unknown")
        old == Get(by, r, NewStats)
        entry == [speakers |-> old.speakers \cup {seg.speaker},
                  segment_count |-> old.segment_count + 1,
                  total_duration_ms |-> old.total_duration_ms
                                        + seg.words[Len(seg.words)][3] - seg.words[1][2]]
    IN  [k \in DOMAIN by \cup {r} |-> IF k = r THEN entry ELSE by[k]]

VARIABLES
    file,               \* the transcript: its lines, each with its terminator
    pc,                 \* the component at work on the file
    pos,                \* lines of the file the component's loop has read
    speakers,           \* Role Resolver: the role map
    segments,           \* Segment Builder: segments emitted
    current_speaker,    \* Segment Builder: the active speaker
    words,              \* Segment Builder: the raw word list of the last scan
    vsegments,          \* variant: segments emitted
    vspeaker,           \* variant: current_speaker
    vpending,           \* variant: pending_text
    verror,             \* variant: the call raised ValueError
    child_speaker_ids,  \* Classifier: codes of the @ID lines with Target_Child
    has_target_child,   \* Classifier: metadata names a Target_Child
    utterances,         \* Classifier: the child utterances
    result,             \* Classifier: the classification returned
    min_words,          \* Filter: the min_words argument
    filter_role,        \* Filter: the role argument
    by_role,            \* Aggregator: get_speaker_statistics' by_role
    children,           \* Filter: what filter_children_only returned
    min_role,           \* Filter: by_min_words, then by_speaker_role on its result
    role_min,           \* Filter: by_speaker_role, then by_min_words on its result
    combined,           \* Filter: what combine_filters returned
    run,                \* which run over the transcript this is
    first,              \* what the first run returned
    directory,          \* the files of the directory: path |-> lines
    cha_files,          \* _extract_from_directory: the sorted .cha paths
    file_index,         \* _extract_from_directory: files its loop has done
    all_segments,       \* _extract_from_directory: the pooled segments
    unvisited,          \* classify_cha_files_in_directory: paths rglob has yet to yield
    results,            \* classify_cha_files_in_directory: class |-> summaries
    raised              \* the directory functions an exception has left

resolverVars == <<speakers>>
builderVars == <<segments, current_speaker, words>>
variantVars == <<vsegments, vspeaker, vpending, verror>>
classifierVars == <<child_speaker_ids, has_target_child, utterances, result>>

filterVars == <<min_words, filter_role, by_role, children, min_role, role_min, combined>>
rerunVars == <<run, first>>
dirVars == <<cha_file, directory, cha_files, file_index, all_segments, unvisited,
             results, raised>>

vars == <<file, pc, pos, resolverVars, builderVars, variantVars, classifierVars,
          filterVars, rerunVars, dirVars>>

Lines ==
    {"@Participants:\tKAT Investigator, WIL Target_Child\n",
     "@Participants:\tDYL, KAT Mother\n",
     "@ID:\tfra|P|KAT||||Teacher|\n",
     "@ID:\tfra|P|WIL|||Target_Child||\n",
     "@ID:\tfra|P|WIL|Target_Child\n",
     "@ID:\tfra|P|||||Teacher|\n",
     "@ID:\tfra|P|KAT||||\n",
     "*WIL:\thello world\n",
     "*CHI:\thi ^U1_2^U\n",
     "*WIL hello\n",
     "*:\tx\n",
     "%wor:\thello ^U100_200^U world ^U200_400^U\n",
     "%wor:\tbonjour 15000_15800 , 15800_15900 chat 15900_16200 .\n"}

\* The tokens the generated %wor lines are made of.
Tokens ==
    {"hello", ".", "+...", "15000_15800", "15800_16200", "100_200",
     "^U100_200^U", NAK \o "15000_15800" \o NAK, "hello" \o NAK \o "15000_15800" \o NAK}

SeqsUpTo(S, n) == UNION {[1..k -> S] : k \in 0..n}

RECURSIVE WorLine(_)
WorLine(toks) ==
    IF toks = <<>> THEN "\n" ELSE " " \o Head(toks) \o WorLine(Tail(toks))

\* The transcripts: every sequence of at most MaxLines of Lines, and a main
\* tier line followed by a %wor line of at most MaxTokens of Tokens.
Transcripts ==
    SeqsUpTo(Lines, MaxLines)
    \cup {<<"*WIL:\thello world\n", "%wor:" \o WorLine(toks)>> : toks \in SeqsUpTo(Tokens, MaxTokens)}

\* One transcript given by its path: no directory is walked.
SingleFile ==
    /\ cha_file = <<"01-1a.cha">>
    /\ directory = EmptyMap
    /\ cha_files = <<>>
    /\ file_index = 0
    /\ all_segments = <<>>
    /\ unvisited = {}
    /\ results = EmptyMap
    /\ raised = {}

Init ==
    /\ file \in Transcripts
    /\ pc = "resolve"
    /\ pos = 0
    /\ speakers = EmptyMap
    /\ segments = <<>>
    /\ current_speaker = NoSpeaker
    /\ words = <<>>
    /\ vsegments = <<>>
    /\ vspeaker = NoSpeaker
    /\ vpending = NoSpeaker
    /\ verror = FALSE
    /\ child_speaker_ids = {}
    /\ has_target_child = FALSE
    /\ utterances = <<>>
    /\ result = NoResult
    /\ min_words = 2
    /\ filter_role = NoSpeaker
    /\ by_role = EmptyMap
    /\ children = <<>>
    /\ min_role = <<>>
    /\ role_min = <<>>
    /\ combined = <<>>
    /\ run = 1
    /\ first = NoResult
    /\ SingleFile

\* extract_speakers_from_cha: one iteration of the loop over the lines.
ResolveLine ==
    /\ pc = "resolve"
    /\ pos < Len(file)
    /\ speakers' = ResolveStep(speakers, file[pos + 1])
    /\ pos' = pos + 1
    /\ UNCHANGED <<file, pc, builderVars, variantVars, classifierVars>>
    /\ UNCHANGED <<filterVars, rerunVars, dirVars>>

ResolveReturn ==
    /\ pc = "resolve"
    /\ pos = Len(file)
    /\ pc' = "build"
    /\ pos' = 0
    /\ UNCHANGED <<file, resolverVars, builderVars, variantVars, classifierVars>>
    /\ UNCHANGED <<filterVars, rerunVars, dirVars>>

\* _extract_from_file: one iteration of the loop over the lines.
BuildLine ==
    /\ pc = "build"
    /\ pos < Len(file)
    /\ pos' = pos + 1
    /\ LET line == RStrip(Chars(file[pos + 1]))
       IN  IF StartsWith(line, Chars("*"))
           THEN /\ current_speaker' = ParseSpeaker(line)
                /\ UNCHANGED <<segments, words>>
           ELSE IF StartsWith(line, Chars("%wor:")) /\ ~Falsy(current_speaker)
           THEN /\ words' = Tokenize(line)
                /\ segments' =
                     IF WordsWithTs(words') # <<>> /\ CleanWords(WordsWithTs(words')) # <<>>
                     THEN Append(segments, MakeSegment(current_speaker, WordsWithTs(words')))
                     ELSE segments
                /\ UNCHANGED current_speaker
           ELSE UNCHANGED <<segments, current_speaker, words>>
    /\ UNCHANGED <<file, pc, resolverVars, variantVars, classifierVars>>
    /\ UNCHANGED <<filterVars, rerunVars, dirVars>>

BuildReturn ==
    /\ pc = "build"
    /\ pos = Len(file)
    /\ pc' = "variant"
    /\ pos' = 0
    /\ UNCHANGED <<file, resolverVars, builderVars, variantVars, classifierVars>>
    /\ UNCHANGED <<filterVars, rerunVars, dirVars>>

\* extract_wor_segments.extract_wor_segments: one iteration of the loop.  A
\* main tier line without ":" makes the tuple unpacking raise ValueError,
\* which ends the call.
VariantLine ==
    /\ pc = "variant"
    /\ pos < Len(file)
    /\ LET line == RStrip(Chars(file[pos + 1]))
           parts == SplitFirst(line, ":")
           ws == FindAll(line, 1)
       IN  IF StartsWith(line, Chars("*"))
           THEN IF Len(parts) = 1
                THEN /\ verror' = TRUE
                     /\ pc' = "classify1"
                     /\ pos' = 0
                     /\ UNCHANGED <<vsegments, vspeaker, vpending>>
                ELSE /\ vspeaker' = Str(Strip(RemoveAll(parts[1], "*")))
                     /\ vpending' = Str(Strip(parts[2]))
                     /\ pos' = pos + 1
                     /\ UNCHANGED <<vsegments, verror, pc>>
           ELSE IF StartsWith(line, Chars("%wor:")) /\ ~Falsy(vspeaker) /\ ws # <<>>
           THEN /\ vsegments' = Append(vsegments, MakeVariantSegment(vspeaker, ws))
                /\ vspeaker' = NoSpeaker
                /\ vpending' = NoSpeaker
                /\ pos' = pos + 1
                /\ UNCHANGED <<verror, pc>>
           ELSE /\ pos' = pos + 1
                /\ UNCHANGED <<vsegments, vspeaker, vpending, verror, pc>>
    /\ UNCHANGED <<file, resolverVars, builderVars, classifierVars>>
    /\ UNCHANGED <<filterVars, rerunVars, dirVars>>

VariantReturn ==
    /\ pc = "variant"
    /\ pos = Len(file)
    /\ pc' = "classify1"
    /\ pos' = 0
    /\ UNCHANGED <<file, resolverVars, builderVars, variantVars, classifierVars>>
    /\ UNCHANGED <<filterVars, rerunVars, dirVars>>

\* classify_cha_file, pass 1: one iteration of the loop over the lines.
ClassifyMetaLine ==
    /\ pc = "classify1"
    /\ pos < Len(file)
    /\ pos' = pos + 1
    /\ has_target_child' = MetaHasChild(has_target_child, file[pos + 1])
    /\ child_speaker_ids' = MetaChildIds(child_speaker_ids, file[pos + 1])
    /\ UNCHANGED <<file, pc, utterances, result, resolverVars, builderVars, variantVars>>
    /\ UNCHANGED <<filterVars, rerunVars, dirVars>>

ClassifyMetaEnd ==
    /\ pc = "classify1"
    /\ pos = Len(file)
    /\ pc' = "classify2"
    /\ pos' = 0
    /\ UNCHANGED <<file, resolverVars, builderVars, variantVars, classifierVars>>
    /\ UNCHANGED <<filterVars, rerunVars, dirVars>>

\* classify_cha_file, pass 2: one iteration of the loop over the lines.
ClassifyUtteranceLine ==
    /\ pc = "classify2"
    /\ pos < Len(file)
    /\ pos' = pos + 1
    /\ utterances' = AddUtterance(utterances, child_speaker_ids, file[pos + 1])
    /\ UNCHANGED <<file, pc, child_speaker_ids, has_target_child, result,
                   resolverVars, builderVars, variantVars>>
    /\ UNCHANGED <<filterVars, rerunVars, dirVars>>

\* classify_cha_file: the summary and the class, after pass 2.
ClassifyReturn ==
    /\ pc = "classify2"
    /\ pos = Len(file)
    /\ result' = Summary(has_target_child, child_speaker_ids, utterances)
    /\ pc' = "done"
    /\ pos' = 0
    /\ UNCHANGED <<file, child_speaker_ids, has_target_child, utterances,
                   resolverVars, builderVars, variantVars>>
    /\ UNCHANGED <<filterVars, rerunVars, dirVars>>

Next ==
    \/ ResolveLine
    \/ ResolveReturn
    \/ BuildLine
    \/ BuildReturn
    \/ VariantLine
    \/ VariantReturn
    \/ ClassifyMetaLine
    \/ ClassifyMetaEnd
    \/ ClassifyUtteranceLine
    \/ ClassifyReturn

Spec == Init /\ [][Next]_vars

(***************************************************************************)
(* The Filter / Aggregator on its own: its functions applied to a list of  *)
(* segments and a role map, as demonstrate_filtering applies them to what  *)
(* the Segment Builder and the Role Resolver returned.                     *)
(***************************************************************************)
MaxSegments == 3
MaxMinWords == 2

FilterSpeakers == {"WIL", "Child"}

FilterRoles == {"Target_Child", "Investigator"}

FilterWords ==
    {<<<<"hello", 100, 200>>>>,
     <<<<"bonjour", 15000, 15800>>, <<"chat", 15800, 16200>>>>}

FilterSegments == {MakeSegment(sp, ws) : sp \in FilterSpeakers, ws \in FilterWords}

RoleMaps == UNION {[known -> FilterRoles] : known \in SUBSET FilterSpeakers}

FilterInit ==
    /\ SingleFile
    /\ file = <<>>
    /\ pc = "statistics"
    /\ pos = 0
    /\ speakers \in RoleMaps
    /\ segments \in SeqsUpTo(FilterSegments, MaxSegments)
    /\ min_words \in 1..MaxMinWords
    /\ filter_role \in FilterRoles \cup {NoSpeaker}
    /\ current_speaker = NoSpeaker
    /\ words = <<>>
    /\ vsegments = <<>>
    /\ vspeaker = NoSpeaker
    /\ vpending = NoSpeaker
    /\ verror = FALSE
    /\ child_speaker_ids = {}
    /\ has_target_child = FALSE
    /\ utterances = <<>>
    /\ result = NoResult
    /\ by_role = EmptyMap
    /\ children = <<>>
    /\ min_role = <<>>
    /\ role_min = <<>>
    /\ combined = <<>>
    /\ run = 1
    /\ first = NoResult

pipelineVars ==
    <<file, resolverVars, builderVars, variantVars, classifierVars, rerunVars, dirVars>>

\* get_speaker_statistics: one iteration of the loop over the segments.
StatisticsSegment ==
    /\ pc = "statistics"
    /\ pos < Len(segments)
    /\ by_role' = StatsStep(by_role, segments[pos + 1], speakers)
    /\ pos' = pos + 1
    /\ UNCHANGED <<pc, min_words, filter_role, children, min_role, role_min, combined>>
    /\ UNCHANGED pipelineVars

StatisticsReturn ==
    /\ pc = "statistics"
    /\ pos = Len(segments)
    /\ pc' = "children"
    /\ pos' = 0
    /\ UNCHANGED <<filterVars, pipelineVars>>

FilterChildrenOnly ==
    /\ pc = "children"
    /\ children' = filter_children_only(segments)
    /\ pc' = "min_words"
    /\ UNCHANGED <<pos, min_words, filter_role, by_role, min_role, role_min, combined>>
    /\ UNCHANGED pipelineVars

\* by_min_words on the segments, then by_speaker_role on what it returned.
ByMinWords ==
    /\ pc = "min_words"
    /\ min_role' = by_min_words(segments, min_words)
    /\ pc' = "then_role"
    /\ UNCHANGED <<pos, min_words, filter_role, by_role, children, role_min, combined>>
    /\ UNCHANGED pipelineVars

ThenBySpeakerRole ==
    /\ pc = "then_role"
    /\ min_role' = by_speaker_role(min_role, speakers, filter_role)
    /\ pc' = "role"
    /\ UNCHANGED <<pos, min_words, filter_role, by_role, children, role_min, combined>>
    /\ UNCHANGED pipelineVars

\* by_speaker_role on the segments, then by_min_words on what it returned.
BySpeakerRole ==
    /\ pc = "role"
    /\ role_min' = by_speaker_role(segments, speakers, filter_role)
    /\ pc' = "then_min_words"
    /\ UNCHANGED <<pos, min_words, filter_role, by_role, children, min_role, combined>>
    /\ UNCHANGED pipelineVars

ThenByMinWords ==
    /\ pc = "then_min_words"
    /\ role_min' = by_min_words(role_min, min_words)
    /\ pc' = "combine"
    /\ UNCHANGED <<pos, min_words, filter_role, by_role, children, min_role, combined>>
    /\ UNCHANGED pipelineVars

CombineFilters ==
    /\ pc = "combine"
    /\ combined' = combine_filters(segments, speakers, min_words, filter_role)
    /\ pc' = "filtered"
    /\ UNCHANGED <<pos, min_words, filter_role, by_role, children, min_role, role_min>>
    /\ UNCHANGED pipelineVars

FilterNext ==
    \/ StatisticsSegment
    \/ StatisticsReturn
    \/ FilterChildrenOnly
    \/ ByMinWords
    \/ ThenBySpeakerRole
    \/ BySpeakerRole
    \/ ThenByMinWords
    \/ CombineFilters

FilterSpec == FilterInit /\ [][FilterNext]_vars

(***************************************************************************)
(* Vocabulary of the properties, stated on the transcript and the results. *)
(***************************************************************************)
\* The line the running loop has just processed, without trailing whitespace.
LastLine == RStrip(Chars(file[pos]))

IsMainTier(cs) == cs # <<>> /\ cs[1] = "*"

IsWorTier(cs) == Len(cs) >= 5 /\ SubSeq(cs, 1, 5) = <<"%", "w", "o", "r", ":">>

PunctuationTokens == {"?", ".", ",", "!", "+..."}

Timed(w) == w[2] >= 0 /\ w[3] >= 0

\* The strings of strs from index k on, each but the first after one space.
RECURSIVE Spaced(_, _)
Spaced(strs, k) ==
    IF k > Len(strs) THEN ""
    ELSE (IF k > 1 THEN " " ELSE "") \o strs[k] \o Spaced(strs, k + 1)

NonPunctuation(ws) ==
    LET kept == SelectSeq(ws, LAMBDA w : w[1] \notin PunctuationTokens)
    IN  [k \in 1..Len(kept) |-> kept[k][1]]

(***************************************************************************)
(* C1: every Segment the Segment Builder returns has a non-empty `words`   *)
(* list, and every entry of it has a non-null start and a non-null end.    *)
(* The segments change only while the builder runs (pc = "build", up to    *)
(* and including the state it returns from).                               *)
(***************************************************************************)
C1_SegmentsTimed ==
    pc = "build" =>
        \A k \in 1..Len(segments) :
            /\ segments[k].words # <<>>
            /\ \A j \in 1..Len(segments[k].words) :
                  /\ segments[k].words[j][2] # None
                  /\ segments[k].words[j][3] # None

\* A segment was emitted from a line whose scan left a word without bounds.
C1_Witness ==
    /\ pc = "build"
    /\ pos >= 1
    /\ IsWorTier(LastLine)
    /\ segments # <<>>
    /\ \E j \in 1..Len(words) : words[j][2] = None

(***************************************************************************)
(* C2: the text of every Segment is the word strings of its `words`, in    *)
(* order, joined by single spaces, once the entries whose word is exactly  *)
(* one of ? . , ! +... are removed.                                        *)
(***************************************************************************)
C2_TextIsJoinedWords ==
    pc = "build" =>
        \A k \in 1..Len(segments) :
            segments[k].text = Spaced(NonPunctuation(segments[k].words), 1)

\* A segment with two words in its text and a punctuation token left out.
C2_Witness ==
    \E k \in 1..Len(segments) :
        /\ Len(NonPunctuation(segments[k].words)) >= 2
        /\ Len(NonPunctuation(segments[k].words)) < Len(segments[k].words)

(***************************************************************************)
(* C3: a %wor: line emits exactly one Segment if and only if a current     *)
(* speaker is set and at least one of its words received a timestamp,      *)
(* punctuation-only tokens included; otherwise it emits nothing and leaves *)
(* the emitted segments and the current speaker unchanged.                 *)
(***************************************************************************)
SpeakerIsSet == current_speaker # NoSpeaker /\ current_speaker # ""

\* The Segment Builder's loop reads a %wor: line in this step.
WorStep ==
    /\ pc = "build"
    /\ pos' = pos + 1
    /\ IsWorTier(RStrip(Chars(file[pos + 1])))

EmitsOne ==
    /\ Len(segments') = Len(segments) + 1
    /\ SubSeq(segments', 1, Len(segments)) = segments

\* The claim as stated: any timestamped word makes the line emit.
C3_EmitsIffTimestamped ==
    [][WorStep =>
        /\ current_speaker' = current_speaker
        /\ IF SpeakerIsSet /\ \E j \in 1..Len(words') : Timed(words'[j])
           THEN EmitsOne
           ELSE segments' = segments]_vars

\* The claim as amended: a timestamped word that is not punctuation-only
\* makes the line emit.
C3_EmitsIffTimestampedText ==
    [][WorStep =>
        /\ current_speaker' = current_speaker
        /\ IF SpeakerIsSet /\ \E j \in 1..Len(words') :
                                 Timed(words'[j]) /\ words'[j][1] \notin PunctuationTokens
           THEN EmitsOne
           ELSE segments' = segments]_vars

\* A %wor: line under a speaker whose timestamped words are all punctuation
\* has been read and no segment was emitted.
C3_Witness ==
    /\ pc = "build"
    /\ pos >= 1
    /\ IsWorTier(LastLine)
    /\ SpeakerIsSet
    /\ \E j \in 1..Len(words) : Timed(words[j])
    /\ \A j \in 1..Len(words) : Timed(words[j]) => words[j][1] \in PunctuationTokens
    /\ segments = <<>>

(***************************************************************************)
(* C4: every Segment's speaker is the code between "*" and the first ":"   *)
(* of the most recent main tier line before its %wor: line; a %wor: line   *)
(* does not reset the speaker, so k consecutive %wor: lines with           *)
(* timestamped words under one turn give k Segments with that speaker, and *)
(* the Segments are in the order of their %wor: lines.                     *)
(***************************************************************************)
FileLine(i) == RStrip(Chars(file[i]))

\* The text between the leading "*" and the first ":" (the end of the line
\* when there is none), without surrounding whitespace.
SpeakerCode(cs) ==
    LET colons == {i \in 1..Len(cs) : cs[i] = ":"}
        c == IF colons = {} THEN Len(cs) + 1
             ELSE CHOOSE i \in colons : \A j \in colons : i <= j
    IN  Str(Strip(SubSeq(cs, 2, c - 1)))

\* The index of the last main tier line before line i, or 0.
TurnOf(i) ==
    LET mains == {m \in 1..(i - 1) : IsMainTier(FileLine(m))}
    IN  IF mains = {} THEN 0 ELSE CHOOSE m \in mains : \A n \in mains : m >= n

TimedText(ws) == \E j \in 1..Len(ws) : Timed(ws[j]) /\ ws[j][1] \notin PunctuationTokens

\* The %wor: lines among the first n lines that stand under a turn with a
\* non-empty code and carry timestamped text.
Emitting(n) ==
    {i \in 1..n : /\ IsWorTier(FileLine(i))
                  /\ TurnOf(i) # 0
                  /\ SpeakerCode(FileLine(TurnOf(i))) # ""
                  /\ TimedText(Tokenize(FileLine(i)))}

Kth(S, k) == CHOOSE i \in S : Cardinality({j \in S : j < i}) = k - 1

BareTimestamp(t) ==
    \E u \in 1..Len(t) :
        /\ t[u] = "_"
        /\ u - 1 >= 5
        /\ Len(t) - u >= 5
        /\ \A i \in 1..Len(t) : i # u => t[i] \in Digits

Underscore(t) == CHOOSE u \in 1..Len(t) : t[u] = "_"

\* The words the claim describes for a list of tokens: the tokens that are
\* no timestamp, each with the bounds of the last timestamp that stands
\* between it and the next word.
ClaimedWords(toks) ==
    LET W == {i \in 1..Len(toks) : ~BareTimestamp(toks[i])}
        NextWord(i) == IF \E j \in W : j > i
                       THEN CHOOSE j \in W : j > i /\ \A n \in W : n > i => j <= n
                       ELSE Len(toks) + 1
        Bound(i) == IF NextWord(i) = i + 1 THEN <<None, None>>
                    ELSE LET t == toks[NextWord(i) - 1]
                         IN  <<ToInt(SubSeq(t, 1, Underscore(t) - 1)),
                               ToInt(SubSeq(t, Underscore(t) + 1, Len(t)))>>
    IN  [k \in 1..Cardinality(W) |->
            <<Str(toks[Kth(W, k)]), Bound(Kth(W, k))[1], Bound(Kth(W, k))[2]>>]

Scanned == pc = "build" /\ pos >= 1 /\ IsWorTier(LastLine) /\ SpeakerIsSet

C5_BareAdjacent == Scanned => words = ClaimedWords(WorTokens(LastLine))

\* A word followed by two different timestamps was scanned: the second
\* overwrote the first.
C5_Witness ==
    /\ Scanned
    /\ \E i \in 1..(Len(WorTokens(LastLine)) - 2) :
          LET toks == WorTokens(LastLine)
          IN  /\ ~BareTimestamp(toks[i])
              /\ BareTimestamp(toks[i + 1])
              /\ BareTimestamp(toks[i + 2])
              /\ toks[i + 1] # toks[i + 2]

(***************************************************************************)
(* C6: the Tier Tokenizer supports the delimited encoding: a timestamp     *)
(* written ^U<digits>_<digits>^U (any number of digits), as its own token  *)
(* after a word or concatenated to the end of the word, gives that word    *)
(* those two integers as bounds, as the bare-adjacent encoding would.      *)
(***************************************************************************)
\* The delimiter as written in the specification and as the byte 0x15.
Delimiters == {<<"^", "U">>, <<NAK>>}

DigitsUnderscoreDigits(t) ==
    \E u \in 2..(Len(t) - 1) :
        /\ t[u] = "_"
        /\ \A i \in 1..Len(t) : i # u => t[i] \in Digits

DelimitedTimestamp(t) ==
    \E D \in Delimiters :
        /\ Len(t) > 2 * Len(D)
        /\ SubSeq(t, 1, Len(D)) = D
        /\ SubSeq(t, Len(t) - Len(D) + 1, Len(t)) = D
        /\ DigitsUnderscoreDigits(SubSeq(t, Len(D) + 1, Len(t) - Len(D)))

\* The two integers of a delimited timestamp.
DelimitedBounds(t) ==
    LET D == CHOOSE d \in Delimiters : SubSeq(t, 1, Len(d)) = d
        inner == SubSeq(t, Len(D) + 1, Len(t) - Len(D))
    IN  <<ToInt(SubSeq(inner, 1, Underscore(inner) - 1)),
          ToInt(SubSeq(inner, Underscore(inner) + 1, Len(inner)))>>

PlainWord(t) ==
    /\ t # <<>>
    /\ ~BareTimestamp(t)
    /\ \A i \in 1..Len(t) : t[i] \notin {"^", NAK}

\* The whitespace-delimited tokens of the tier as written in the file.
RawTokens(cs) == SplitWS(SubSeq(cs, 6, Len(cs)))

HasWord(w, b) == \E j \in 1..Len(words) : words[j] = <<Str(w), b[1], b[2]>>

C6_DelimitedEncoding ==
    Scanned =>
        LET toks == RawTokens(LastLine)
        IN  /\ \A i \in 1..(Len(toks) - 1) :
                  /\ PlainWord(toks[i])
                  /\ DelimitedTimestamp(toks[i + 1])
                  /\ i + 1 = Len(toks)
                  => HasWord(toks[i], DelimitedBounds(toks[i + 1]))
            /\ toks # <<>> =>
                  LET last == toks[Len(toks)]
                  IN  \A k \in 1..(Len(last) - 1) :
                          /\ PlainWord(SubSeq(last, 1, k))
                          /\ DelimitedTimestamp(SubSeq(last, k + 1, Len(last)))
                          => HasWord(SubSeq(last, 1, k),
                                     DelimitedBounds(SubSeq(last, k + 1, Len(last))))

(***************************************************************************)
(* C7: the round trip: for the transcript @Participants: KAT Investigator, *)
(* WIL Target_Child / *WIL: hello world / %wor: hello ^U100_200^U world    *)
(* ^U200_400^U the Role Resolver returns {KAT: Investigator, WIL:          *)
(* Target_Child}, the Segment Builder returns one Segment (WIL, "hello     *)
(* world", [(hello,100,200),(world,200,400)]) and the class is A.          *)
(***************************************************************************)
RoundTripTranscript ==
    <<"@Participants:\tKAT Investigator, WIL Target_Child\n",
      "*WIL:\thello world\n",
      "%wor:\thello ^U100_200^U world ^U200_400^U\n">>

C7_RoundTrip ==
    pc = "done" /\ file = RoundTripTranscript =>
        /\ DOMAIN speakers = {"KAT", "WIL"}
        /\ speakers["KAT"] = "Investigator"
        /\ speakers["WIL"] = "Target_Child"
        /\ Len(segments) = 1
        /\ segments[1].speaker = "WIL"
        /\ segments[1].text = "hello world"
        /\ segments[1].words = <<<<"hello", 100, 200>>, <<"world", 200, 400>>>>
        /\ result.type = "A"

(***************************************************************************)
(* C8: when a code gets a role from a well-formed @Participants: pair and  *)
(* a non-empty role from a well-formed @ID: line, the role map holds the   *)
(* @ID: role, whatever the order of the two lines.                         *)
(***************************************************************************)
IsIdLine(cs) == Len(cs) >= 4 /\ SubSeq(cs, 1, 4) = <<"@", "I", "D", ":">>

IsParticipantsLine(cs) == Len(cs) >= 14 /\ SubSeq(cs, 1, 14) = Chars("@Participants:")

\* The pipe-delimited fields of a metadata line, the terminator set aside.
Fields(cs) == SplitAll(Strip(cs), "|")

WellFormedId(cs) ==
    /\ IsIdLine(cs)
    /\ Len(Fields(cs)) >= 7
    /\ Fields(cs)[3] # <<>>
    /\ Fields(cs)[7] # <<>>

\* The <code> <role> pairs of an @Participants: line.
Pairs(cs) ==
    LET entries == SplitAll(SubSeq(cs, 15, Len(cs)), ",")
        Pair(e) == RSplitLast(Strip(e), " ")
    IN  {<<Str(Pair(entries[k])[1]), Str(Pair(entries[k])[2])>> :
            k \in {n \in 1..Len(entries) : Len(Pair(entries[n])) = 2}}

HasRole(code, role) == code \in DOMAIN speakers /\ speakers[code] = role

C8_IdOverridesParticipants ==
    pc # "resolve" =>
        \A i, j \in 1..Len(file) :
            LET id == Chars(file[i])
                pl == Chars(file[j])
            IN  /\ WellFormedId(id)
                /\ IsParticipantsLine(pl)
                /\ \E p \in Pairs(pl) : p[1] = Str(Fields(id)[3])
                => HasRole(Str(Fields(id)[3]), Str(Fields(id)[7]))

(***************************************************************************)
(* C9: an @ID: line whose field 2 is a non-empty code maps that code to    *)
(* the role at field index 5 when the role is placed there and to the role *)
(* at field index 6 when it is placed there.                               *)
(***************************************************************************)
IsMetadata(cs) == IsIdLine(cs) \/ IsParticipantsLine(cs)

\* Line i is an @ID: line with a code and the role at exactly one of the
\* indices 5 and 6, and no metadata line follows it.
RoleAt(i, idx) ==
    LET cs == Chars(file[i])
    IN  /\ IsIdLine(cs)
        /\ Len(Fields(cs)) >= 7
        /\ Fields(cs)[3] # <<>>
        /\ Fields(cs)[idx + 1] # <<>>
        /\ Fields(cs)[(IF idx = 5 THEN 6 ELSE 5) + 1] = <<>>
        /\ \A j \in (i + 1)..Len(file) : ~IsMetadata(Chars(file[j]))

C9_RoleAtIndex5Or6 ==
    pc # "resolve" =>
        \A i \in 1..Len(file) : \A idx \in {5, 6} :
            RoleAt(i, idx) =>
                HasRole(Str(Fields(Chars(file[i]))[3]), Str(Fields(Chars(file[i]))[idx + 1]))

(***************************************************************************)
(* C10: a malformed metadata line (an @ID: line with too few fields or an  *)
(* empty code or role field, an @Participants: entry that is no            *)
(* <code> <role> pair) leaves the role map as it was; the well-formed      *)
(* entries of the transcript are still recorded.                           *)
(***************************************************************************)
MalformedId(cs) ==
    /\ IsIdLine(cs)
    /\ \/ Len(Fields(cs)) < 7
       \/ Fields(cs)[3] = <<>>
       \/ Fields(cs)[6] = <<>> /\ Fields(cs)[7] = <<>>

C10_MalformedSkipped ==
    [][pc = "resolve" /\ pos' = pos + 1 =>
         LET cs == Chars(file[pos + 1])
         IN  /\ MalformedId(cs) => speakers' = speakers
             /\ IsParticipantsLine(cs) =>
                   /\ \A p \in Pairs(cs) : p[1] \in DOMAIN speakers'
                   /\ \A c \in DOMAIN speakers' :
                         \/ \E p \in Pairs(cs) : p[1] = c /\ speakers'[c] = p[2]
                         \/ c \in DOMAIN speakers /\ speakers'[c] = speakers[c]]_vars
(***************************************************************************)
(* The Role Resolver and the Segment Builder run twice on one transcript:  *)
(* a second call of extract_speakers_from_cha and of _extract_from_file    *)
(* after the first ones returned.                                          *)
(***************************************************************************)
KeptSpeaker(left) == left

\* _extract_from_file sets current_speaker = None on entry, whatever the
\* call before left in its own current_speaker.
EntrySpeaker(left) == NoSpeaker

\* What one run returned: the role map and the segments.
Returned == [speakers |-> speakers, segments |-> segments]

\* The first run has returned; the functions are entered again.
Rerun ==
    /\ pc = "build"
    /\ pos = Len(file)
    /\ run = 1
    /\ first' = Returned
    /\ run' = 2
    /\ speakers' = EmptyMap
    /\ segments' = <<>>
    /\ current_speaker' = EntrySpeaker(current_speaker)
    /\ words' = <<>>
    /\ pc' = "resolve"
    /\ pos' = 0
    /\ UNCHANGED <<file, variantVars, classifierVars, filterVars, dirVars>>

RerunReturn ==
    /\ pc = "build"
    /\ pos = Len(file)
    /\ run = 2
    /\ pc' = "done"
    /\ pos' = 0
    /\ UNCHANGED <<file, resolverVars, builderVars, variantVars, classifierVars,
                   filterVars, rerunVars, dirVars>>

RerunNext ==
    \/ ResolveLine
    \/ ResolveReturn
    \/ BuildLine
    \/ Rerun
    \/ RerunReturn

RerunSpec == Init /\ [][RerunNext]_vars

(***************************************************************************)
(* The core over a directory: extract_wor._extract_from_directory, then    *)
(* classify_cha.classify_cha_files_in_directory, on the same directory.    *)
(***************************************************************************)
MaxFiles == 3

\* The paths a file of the directory can have.
DirPaths == {<<"b.cha">>, <<"a.cha">>, <<"a", "c.cha">>, <<"a.txt">>}

\* What a file of the directory can hold.
DirTranscripts ==
    {<<"*WIL:\thello world\n",
       "%wor:\tbonjour 15000_15800 , 15800_15900 chat 15900_16200 .\n">>,
     <<"%wor:\tbonjour 15000_15800 , 15800_15900 chat 15900_16200 .\n",
       "*CHI:\thi ^U1_2^U\n">>,
     <<"@ID:\tfra|P|WIL|||Target_Child||\n",
       "*WIL:\thello world\n",
       "%wor:\thello 15000_15800\n">>,
     <<"*WIL:\thi\n",
       "%wor:\tcaf" \o InvalidByte \o " 15000_15800\n">>}

\* The directories: at most MaxFiles files.
Directories ==
    UNION {[S -> DirTranscripts] : S \in {T \in SUBSET DirPaths : Cardinality(T) <= MaxFiles}}

DirInit ==
    /\ directory \in Directories
    /\ pc = "glob"
    /\ pos = 0
    /\ file = <<>>
    /\ cha_file = <<>>
    /\ cha_files = <<>>
    /\ file_index = 0
    /\ all_segments = <<>>
    /\ unvisited = {}
    /\ results = EmptyMap
    /\ raised = {}
    /\ speakers = EmptyMap
    /\ segments = <<>>
    /\ current_speaker = NoSpeaker
    /\ words = <<>>
    /\ vsegments = <<>>
    /\ vspeaker = NoSpeaker
    /\ vpending = NoSpeaker
    /\ verror = FALSE
    /\ child_speaker_ids = {}
    /\ has_target_child = FALSE
    /\ utterances = <<>>
    /\ result = NoResult
    /\ min_words = 2
    /\ filter_role = NoSpeaker
    /\ by_role = EmptyMap
    /\ children = <<>>
    /\ min_role = <<>>
    /\ role_min = <<>>
    /\ combined = <<>>
    /\ run = 1
    /\ first = NoResult

otherVars == <<resolverVars, variantVars, filterVars, rerunVars>>

\* _extract_from_directory up to its loop: the two globs, the sorted set,
\* the early return without files, the empty all_segments.
Glob ==
    /\ pc = "glob"
    /\ cha_files' = ChaFiles(directory)
    /\ all_segments' = <<>>
    /\ file_index' = 0
    /\ pc' = IF cha_files' = <<>> THEN "rglob" ELSE "extract"
    /\ UNCHANGED <<file, pos, cha_file, directory, unvisited, results, raised>>
    /\ UNCHANGED <<builderVars, classifierVars, otherVars>>

\* The loop takes the next file and enters _extract_from_file with it: the
\* locals of the call, and the first read of the file.  UnicodeDecodeError
\* is caught neither there nor in _extract_from_directory, and leaves both.
ExtractEnter ==
    /\ pc = "extract"
    /\ file_index < Len(cha_files)
    /\ cha_file' = cha_files[file_index + 1]
    /\ IF Decodes(directory[cha_file'])
       THEN /\ file' = directory[cha_file']
            /\ segments' = <<>>
            /\ current_speaker' = EntrySpeaker(current_speaker)
            /\ words' = <<>>
            /\ pc' = "build"
            /\ UNCHANGED raised
       ELSE /\ raised' = raised \cup {"_extract_from_directory"}
            /\ pc' = "rglob"
            /\ UNCHANGED <<file, builderVars>>
    /\ pos' = 0
    /\ UNCHANGED <<directory, cha_files, file_index, all_segments, unvisited, results>>
    /\ UNCHANGED <<classifierVars, otherVars>>

\* _extract_from_file returns its segments and the loop pools them.
ExtractExit ==
    /\ pc = "build"
    /\ pos = Len(file)
    /\ all_segments' = all_segments \o segments
    /\ file_index' = file_index + 1
    /\ pc' = "extract"
    /\ pos' = 0
    /\ UNCHANGED <<file, cha_file, directory, cha_files, unvisited, results, raised>>
    /\ UNCHANGED <<builderVars, classifierVars, otherVars>>

\* _extract_from_directory returns all_segments.
ExtractReturn ==
    /\ pc = "extract"
    /\ file_index = Len(cha_files)
    /\ pc' = "rglob"
    /\ UNCHANGED <<file, pos, dirVars, builderVars, classifierVars, otherVars>>

\* classify_cha_files_in_directory up to its loop.  rglob yields the paths
\* in the order the file system lists them.
ClassifyDirEnter ==
    /\ pc = "rglob"
    /\ results' = EmptyMap
    /\ unvisited' = GlobDeep(directory)
    /\ pc' = "classify_dir"
    /\ UNCHANGED <<file, pos, cha_file, directory, cha_files, file_index, all_segments, raised>>
    /\ UNCHANGED <<builderVars, classifierVars, otherVars>>

\* The loop takes the next path and enters classify_cha_file with it: the
\* locals of the call, and the first read of the file.  UnicodeDecodeError
\* is caught neither there nor in classify_cha_files_in_directory.
ClassifyEnter ==
    /\ pc = "classify_dir"
    /\ \E path \in unvisited :
         /\ cha_file' = path
         /\ unvisited' = unvisited \ {path}
         /\ IF Decodes(directory[path])
            THEN /\ file' = directory[path]
                 /\ child_speaker_ids' = {}
                 /\ has_target_child' = FALSE
                 /\ utterances' = <<>>
                 /\ result' = NoResult
                 /\ pc' = "classify1"
                 /\ UNCHANGED raised
            ELSE /\ raised' = raised \cup {"classify_cha_files_in_directory"}
                 /\ pc' = "finished"
                 /\ UNCHANGED <<file, classifierVars>>
    /\ pos' = 0
    /\ UNCHANGED <<directory, cha_files, file_index, all_segments, results>>
    /\ UNCHANGED <<builderVars, otherVars>>

\* results[info["type"]].append(info)
ClassifyCollect ==
    /\ pc = "done"
    /\ results' = [type \in DOMAIN results \cup {result.type} |->
                     IF type = result.type
                     THEN Append(Get(results, type, <<>>), result)
                     ELSE results[type]]
    /\ pc' = "classify_dir"
    /\ UNCHANGED <<file, pos, cha_file, directory, cha_files, file_index, all_segments,
                   unvisited, raised>>
    /\ UNCHANGED <<builderVars, classifierVars, otherVars>>

\* classify_cha_files_in_directory returns results.
ClassifyDirReturn ==
    /\ pc = "classify_dir"
    /\ unvisited = {}
    /\ pc' = "finished"
    /\ UNCHANGED <<file, pos, dirVars, builderVars, classifierVars, otherVars>>

DirNext ==
    \/ Glob
    \/ ExtractEnter
    \/ BuildLine
    \/ ExtractExit
    \/ ExtractReturn
    \/ ClassifyDirEnter
    \/ ClassifyEnter
    \/ ClassifyMetaLine
    \/ ClassifyMetaEnd
    \/ ClassifyUtteranceLine
    \/ ClassifyReturn
    \/ ClassifyCollect
    \/ ClassifyDirReturn

DirSpec == DirInit /\ [][DirNext]_vars

(***************************************************************************)
(* Vocabulary of the properties of the Filter / Aggregator.                *)
(***************************************************************************)
FilterStages ==
    <<"statistics", "children", "min_words", "then_role", "role", "then_min_words",
      "combine", "filtered">>

StageOf(p) == CHOOSE k \in 1..Len(FilterStages) : FilterStages[k] = p

\* The call made at stage p has returned.
Past(p) == pc \in Elements(FilterStages) /\ StageOf(pc) > StageOf(p)

ChildRoleVocabulary == {"Target_Child", "Child", "Sibling", "Peer", "Playmate"}

\* The role the role map resolves a code to; unmapped codes have none.
ResolvedRole(code) == IF code \in DOMAIN speakers THEN speakers[code] ELSE "Unknown"

\* a is b with some elements left out: same order, no new elements.
RECURSIVE IsSubList(_, _)
IsSubList(a, b) ==
    IF a = <<>> THEN TRUE
    ELSE IF b = <<>> THEN FALSE
    ELSE IF Head(a) = Head(b) THEN IsSubList(Tail(a), Tail(b))
    ELSE IsSubList(a, Tail(b))

(***************************************************************************)
(* C11: what filter_children returns is a sub-list of the segments it was  *)
(* given (same order, no new elements), and the resolved role of every     *)
(* returned segment's speaker is in the child role vocabulary.             *)
(***************************************************************************)
C11_ChildrenAreChildren ==
    Past("children") =>
        /\ IsSubList(children, segments)
        /\ \A k \in 1..Len(children) :
              ResolvedRole(children[k].speaker) \in ChildRoleVocabulary

\* The sub-list half of C11 alone.
C11_ChildrenSubList == Past("children") => IsSubList(children, segments)

(***************************************************************************)
(* C12: by_min_words then by_speaker_role gives the same segments, in the  *)
(* same order, as by_speaker_role then by_min_words; combine_filters       *)
(* called with a role gives that result too; the list handed to the        *)
(* filters is left as it was.                                              *)
(***************************************************************************)
\* A role was passed: a string, not None and not empty.
WithRole == filter_role # NoSpeaker /\ filter_role # ""

C12_FiltersCommute ==
    /\ [](Past("then_min_words") => min_role = role_min)
    /\ [](Past("combine") /\ WithRole => combined = min_role)
    /\ [][(pc \in Elements(FilterStages)) => (segments' = segments)]_vars

\* Both filters drop a segment, in either order, and one segment is kept.
C12_Witness ==
    /\ Past("combine")
    /\ WithRole
    /\ combined = min_role
    /\ min_role = role_min
    /\ Len(combined) = 1
    /\ Len(by_min_words(segments, min_words)) = 2
    /\ Len(by_speaker_role(segments, speakers, filter_role)) = 2
    /\ Len(segments) = 3

(***************************************************************************)
(* C17: the per-role aggregation holds, for each key, the set of distinct  *)
(* speaker codes of the segments with that key, their number, and the sum  *)
(* over them of (end of last word - start of first word); the counts of    *)
(* all keys sum to the number of segments and every speaker of a segment   *)
(* is under exactly one key.  Stated of the segments aggregated so far,    *)
(* which are all of them once the aggregation has returned.                *)
(***************************************************************************)
\* The number of leading segments the aggregation has taken in.
Aggregated == IF pc = "statistics" THEN pos ELSE Len(segments)

\* The indices of the aggregated segments whose speaker resolves to key.
WithKey(key) == {k \in 1..Aggregated : ResolvedRole(segments[k].speaker) = key}

SpanOf(seg) == seg.words[Len(seg.words)][3] - seg.words[1][2]

RECURSIVE TotalSpan(_)
TotalSpan(idx) ==
    IF idx = {} THEN 0
    ELSE LET k == CHOOSE x \in idx : TRUE
         IN  SpanOf(segments[k]) + TotalSpan(idx \ {k})

RECURSIVE TotalCount(_)
TotalCount(keys) ==
    IF keys = {} THEN 0
    ELSE LET key == CHOOSE x \in keys : TRUE
         IN  by_role[key].segment_count + TotalCount(keys \ {key})

C17_AggregationPerRole ==
    pc \in Elements(FilterStages) =>
        /\ DOMAIN by_role = {ResolvedRole(segments[k].speaker) : k \in 1..Aggregated}
        /\ \A key \in DOMAIN by_role :
              /\ by_role[key].speakers = {segments[k].speaker : k \in WithKey(key)}
              /\ by_role[key].segment_count = Cardinality(WithKey(key))
              /\ by_role[key].total_duration_ms = TotalSpan(WithKey(key))
        /\ TotalCount(DOMAIN by_role) = Aggregated
        /\ \A k \in 1..Aggregated :
              Cardinality({key \in DOMAIN by_role :
                              segments[k].speaker \in by_role[key].speakers}) = 1

\* Three segments aggregated under two keys, one of them with two segments of
\* 100 ms and 1200 ms.
C17_Witness ==
    /\ Past("statistics")
    /\ Len(segments) = 3
    /\ Cardinality(DOMAIN by_role) = 2
    /\ \E key \in DOMAIN by_role :
          /\ by_role[key].segment_count = 2
          /\ by_role[key].total_duration_ms = 1300

(***************************************************************************)
(* Vocabulary of the properties of the Transcript Classifier, stated on    *)
(* the transcript: the roles its metadata lines declare, and its main tier *)
(* lines.                                                                  *)
(***************************************************************************)
\* The <code, role> an @ID: line declares: field 2 is the code, the role is
\* the populated field among those at index 5 and 6.  A line with too few
\* fields or an empty code declares nothing.
IdDeclared(cs) ==
    IF IsIdLine(cs) /\ Len(Fields(cs)) >= 6 /\ Fields(cs)[3] # <<>>
    THEN {<<Str(Fields(cs)[3]), Str(Fields(cs)[k + 1])>> :
             k \in {n \in {5, 6} : n + 1 <= Len(Fields(cs)) /\ Fields(cs)[n + 1] # <<>>}}
    ELSE {}

IdRoles(code) ==
    {p[2] : p \in {q \in UNION {IdDeclared(Chars(file[i])) : i \in 1..Len(file)} :
                      q[1] = code}}

ParticipantDeclared ==
    UNION {Pairs(Chars(file[i])) :
              i \in {n \in 1..Len(file) : IsParticipantsLine(Chars(file[n]))}}

ParticipantRoles(code) == {p[2] : p \in {q \in ParticipantDeclared : q[1] = code}}

\* The roles the metadata gives a code: those of its @ID: lines when there
\* are any, else those of its @Participants: entries.
DeclaredRoles(code) ==
    IF IdRoles(code) # {} THEN IdRoles(code) ELSE ParticipantRoles(code)

DeclaredCodes ==
    {p[1] : p \in ParticipantDeclared
                  \cup UNION {IdDeclared(Chars(file[i])) : i \in 1..Len(file)}}

DeclaredChildren ==
    {c \in DeclaredCodes : DeclaredRoles(c) \cap ChildRoleVocabulary # {}}

\* child_speaker_codes: the codes of a child role, and the legacy code CHI.
ChildSpeakerCodes == DeclaredChildren \cup {"CHI"}

\* The metadata declares a participant of a child role.
DeclaresChild == DeclaredChildren # {}

\* The main tier lines (with a code and a content) spoken by a child code.
ChildUtterances ==
    {i \in 1..Len(file) : /\ IsMainTier(FileLine(i))
                          /\ ":" \in Elements(FileLine(i))
                          /\ SpeakerCode(FileLine(i)) \in ChildSpeakerCodes}

\* The raw content of a main tier line: what follows its first ":".
Content(cs) == SplitFirst(cs, ":")[2]

\* A timestamp pattern, delimiter digits _ digits delimiter, occurs in cs.
CarriesTimestamp(cs) ==
    \E i \in 1..Len(cs) : \E j \in i..Len(cs) :
        /\ cs[i] \in {"^", NAK}
        /\ DelimitedTimestamp(SubSeq(cs, i, j))

Timestamped == {i \in ChildUtterances : CarriesTimestamp(Content(FileLine(i)))}

Classified == pc = "done"

(***************************************************************************)
(* C13: when at least one main tier line has a speaker in                  *)
(* child_speaker_codes, the class is A if the raw content of every such    *)
(* line contains a timestamp pattern, and B if that of at least one but    *)
(* not all of them does.                                                   *)
(***************************************************************************)
C13_ClassAOrB ==
    Classified /\ ChildUtterances # {} =>
        /\ Timestamped = ChildUtterances => result.type = "A"
        /\ Timestamped # {} /\ Timestamped # ChildUtterances => result.type = "B"

\* C13 for the transcripts whose role map declares a child participant.
C13_ClassAOrBDeclared ==
    Classified /\ DeclaresChild /\ ChildUtterances # {} =>
        /\ Timestamped = ChildUtterances => result.type = "A"
        /\ Timestamped # {} /\ Timestamped # ChildUtterances => result.type = "B"

(***************************************************************************)
(* C14: when the metadata declares child speakers and there is at least    *)
(* one child utterance, and no child utterance contains a timestamp, the   *)
(* class is C.                                                             *)
(***************************************************************************)
C14_ClassC ==
    Classified /\ DeclaresChild /\ ChildUtterances # {} /\ Timestamped = {} =>
        result.type = "C"

\* The classes the classifier returns.
C14_ClassesReturned == Classified => result.type \in {"EMPTY", "A", "B"}

(***************************************************************************)
(* C15: a transcript whose metadata declares no participant of a child     *)
(* role is classed EMPTY whatever its utterance lines are, and so is a     *)
(* transcript whose metadata declares one but that has no child utterance. *)
(***************************************************************************)
C15_Empty ==
    Classified =>
        /\ ~DeclaresChild => result.type = "EMPTY"
        /\ DeclaresChild /\ ChildUtterances = {} => result.type = "EMPTY"

\* The text Target_Child stands in the metadata only where a participant is
\* declared: in no @ID: line that declares nothing.
OnlyDeclaredTargetChild ==
    \A i \in 1..Len(file) :
        IsIdLine(Chars(file[i])) /\ Contains(Chars(file[i]), Chars("Target_Child"))
        => IdDeclared(Chars(file[i])) # {}

\* C15 for the transcripts without a malformed @ID: line naming Target_Child.
C15_EmptyWellFormed == OnlyDeclaredTargetChild => C15_Empty

(***************************************************************************)
(* C16: the classifier's child_speaker_codes are the codes whose resolved  *)
(* role, from @Participants: or @ID:, is in the child role vocabulary,     *)
(* plus the legacy code CHI; the utterances it counts are exactly the main *)
(* tier lines whose speaker code is one of them.                           *)
(***************************************************************************)
C16_ChildCodesAndCount ==
    Classified =>
        /\ result.child_speakers \cup {"CHI"} = ChildSpeakerCodes
        /\ result.child_utterances = Cardinality(ChildUtterances)

(***************************************************************************)
(* C19: in the Tier Tokenizer, when two timestamp tokens follow a word     *)
(* with no word between them, the second is discarded: the word keeps the  *)
(* bounds of the first timestamp, and the second is no word of the scan.   *)
(***************************************************************************)
\* The two integers of a bare timestamp token.
BareBounds(t) ==
    <<ToInt(SubSeq(t, 1, Underscore(t) - 1)), ToInt(SubSeq(t, Underscore(t) + 1, Len(t)))>>

\* The place in the word list of the word that token i of toks is.
WordIndex(toks, i) == Cardinality({j \in 1..i : ~BareTimestamp(toks[j])})

NoTimestampWord == \A j \in 1..Len(words) : ~BareTimestamp(Chars(words[j][1]))

C19_SecondDiscarded ==
    Scanned =>
        LET toks == WorTokens(LastLine)
        IN  /\ NoTimestampWord
            /\ \A i \in 1..(Len(toks) - 2) :
                  /\ ~BareTimestamp(toks[i])
                  /\ BareTimestamp(toks[i + 1])
                  /\ BareTimestamp(toks[i + 2])
                  => words[WordIndex(toks, i)] =
                        <<Str(toks[i]), BareBounds(toks[i + 1])[1], BareBounds(toks[i + 1])[2]>>

\* The half of C19 that says the second timestamp is no word of the scan.
C19_NotAWord == Scanned => NoTimestampWord

(***************************************************************************)
(* C20: no sequence of transcript lines makes the core raise: a line that  *)
(* starts with "*" and has no ":", a main tier line with an empty code, a  *)
(* %wor: line before any main tier line and a %wor: line without content   *)
(* only give fewer or no results, in both Segment Builders and in the      *)
(* Transcript Classifier.                                                  *)
(***************************************************************************)
C20_NeverRaises == ~verror

\* Every main tier line of the transcript has a ":".
AllTurnsHaveColon ==
    \A i \in 1..Len(file) : IsMainTier(FileLine(i)) => ":" \in Elements(FileLine(i))

\* C20 for the transcripts whose main tier lines all have a ":".
C20_NeverRaisesWithColons == AllTurnsHaveColon => ~verror

(***************************************************************************)
(* C18: running the Role Resolver and the Segment Builder again on the     *)
(* unchanged transcript returns the same role map and the same segments:   *)
(* nothing of the first run (current speaker, word list, role map) is left *)
(* for the second.                                                         *)
(***************************************************************************)
C18_RerunIdentical == pc = "done" /\ run = 2 => Returned = first

\* The second run has returned one segment for a transcript that starts with
\* a %wor: line carrying timestamps, which a speaker left by the first run
\* would have turned into a segment.
C18_Witness ==
    /\ pc = "done"
    /\ run = 2
    /\ Len(file) = 3
    /\ IsWorTier(FileLine(1))
    /\ TimedText(Tokenize(FileLine(1)))
    /\ Len(segments) = 1
    /\ current_speaker = "WIL"

(***************************************************************************)
(* Vocabulary of the properties of the core over a directory.              *)
(***************************************************************************)
\* The transcripts of the directory: its .cha files, at any depth.
ChaPaths == {p \in DOMAIN directory : MatchesCha(PathName(p))}

Readable(p) == Decodes(directory[p])

LineOf(lines, i) == RStrip(Chars(lines[i]))

\* The index of the last main tier line of lines before line i, or 0.
TurnIn(lines, i) ==
    LET mains == {m \in 1..(i - 1) : IsMainTier(LineOf(lines, m))}
    IN  IF mains = {} THEN 0 ELSE CHOOSE m \in mains : \A n \in mains : m >= n

\* The %wor: lines of lines that stand under a turn of these lines with a
\* non-empty code and carry timestamped text.
EmittingIn(lines) ==
    {i \in 1..Len(lines) : /\ IsWorTier(LineOf(lines, i))
                           /\ TurnIn(lines, i) # 0
                           /\ SpeakerCode(LineOf(lines, TurnIn(lines, i))) # ""
                           /\ TimedText(Tokenize(LineOf(lines, i)))}

\* What the Segment Builder returns for the file at path p taken alone.
BuilderResult(p) ==
    LET lines == directory[p]
        E == EmittingIn(lines)
    IN  [k \in 1..Cardinality(E) |->
           LET i == Kth(E, k)
               ws == SelectSeq(Tokenize(LineOf(lines, i)), Timed)
           IN  [speaker |-> SpeakerCode(LineOf(lines, TurnIn(lines, i))),
                text |-> Spaced(NonPunctuation(ws), 1),
                words |-> ws,
                file_name |-> PathStem(p)]]

\* _extract_from_directory has just ended, by a return or by an exception.
ExtractionOver == pc = "rglob"

\* What _extract_from_directory gave its caller, once it is over.
Extracted == IF "_extract_from_directory" \in raised THEN <<>> ELSE all_segments

\* The summaries classify_cha_files_in_directory gave its caller.
Summaries ==
    IF "classify_cha_files_in_directory" \in raised THEN {}
    ELSE UNION {Elements(results[type]) : type \in DOMAIN results}

(***************************************************************************)
(* C21: when the core is run over a directory and one transcript cannot be *)
(* decoded, the failure stays with that file: neither directory function   *)
(* is left by the exception, the segments of every other transcript are in *)
(* what directory extraction returns, and every other transcript has its   *)
(* summary in what directory classification returns.                       *)
(***************************************************************************)
C21_FailureConfined ==
    pc = "finished" =>
        /\ raised = {}
        /\ \A p \in ChaPaths :
              Readable(p) =>
                  /\ IsSubList(BuilderResult(p), Extracted)
                  /\ \E info \in Summaries : info.file = PathName(p)

\* The second half of C21 alone: the results of the transcripts that can be
\* decoded reach the caller.
C21_OthersProduced ==
    pc = "finished" =>
        \A p \in ChaPaths :
            Readable(p) =>
                /\ IsSubList(BuilderResult(p), Extracted)
                /\ \E info \in Summaries : info.file = PathName(p)

\* C21 for the directories whose transcripts can all be decoded.
C21_AllReadable == (\A p \in ChaPaths : Readable(p)) => C21_FailureConfined

(***************************************************************************)
(* C22: directory extraction returns the Segment Builder results of the    *)
(* .cha files of the directory, each file once, one after the other in the *)
(* order of the sorted paths; every segment has the stem of its own file   *)
(* as file_name; and a file is built as if it were alone: a %wor: line     *)
(* before its first main tier line gives no segment, whatever speaker the  *)
(* file before it ended with.                                              *)
(***************************************************************************)
\* The .cha paths, each once, in ascending order.
InPathOrder ==
    CHOOSE s \in [1..Cardinality(ChaPaths) -> ChaPaths] :
        \A i, j \in 1..Cardinality(ChaPaths) : i < j => PathLess(s[i], s[j])

RECURSIVE Pooled(_, _)
Pooled(paths, k) ==
    IF k > Len(paths) THEN <<>> ELSE BuilderResult(paths[k]) \o Pooled(paths, k + 1)

FromFile(p) == SelectSeq(all_segments, LAMBDA seg : seg.file_name = PathStem(p))

C22_DirectoryIsConcatenation ==
    ExtractionOver /\ "_extract_from_directory" \notin raised =>
        /\ all_segments = Pooled(InPathOrder, 1)
        /\ \A p \in ChaPaths : FromFile(p) = BuilderResult(p)

\* Extraction has returned for three transcripts, the second of which (also
\* found by both globs) starts with a %wor: line carrying timestamped text
\* and gave no segment, after a file that ended under the turn of a speaker;
\* the first and the third gave one segment each.
C22_Witness ==
    /\ ExtractionOver
    /\ raised = {}
    /\ cha_files = <<<<"a", "c.cha">>, <<"a.cha">>, <<"b.cha">>>>
    /\ <<"a.cha">> \in GlobTop(directory) \cap GlobDeep(directory)
    /\ TurnIn(directory[<<"a", "c.cha">>], Len(directory[<<"a", "c.cha">>]) + 1) # 0
    /\ IsWorTier(LineOf(directory[<<"a.cha">>], 1))
    /\ TimedText(Tokenize(LineOf(directory[<<"a.cha">>], 1)))
    /\ Len(all_segments) = 2
    /\ all_segments[1].file_name = "c"
    /\ all_segments[2].file_name = "b"

====
